---- MODULE Spec2Model ----
(***************************************************************************)
(* A model of the rust-state-machine runtime: the System, Balances and     *)
(* ProofOfExistence pallets (src/src/system.rs, balances.rs,               *)
(* proof_of_existence.rs) and the Runtime that dispatches extrinsics to    *)
(* them and executes blocks (src/src/main.rs).                             *)
(*                                                                         *)
(* A BTreeMap is a function whose DOMAIN is the set of keys present.       *)
(* Option<T> is a sequence of length zero (None) or one (Some(v)).         *)
(* A DispatchResult is "Ok" or the error string the code returns.          *)
(***************************************************************************)
EXTENDS Integers, Sequences, FiniteSets, TLC

\* ---------------------------------------------------------------- bounds
\* Balance is u128 in main.rs; the model scales its largest value down.
MaxBalance == 2
\* execute_block is called at most MaxBlocks times (block_number is a u32
\* that the model never lets reach its width).
MaxBlocks == 2
\* The blocks given to execute_block hold at most MaxExtrinsics extrinsics
\* in total (nonces are u32 counters that the model never lets reach their width).
MaxExtrinsics == 2

\* ------------------------------------------------------------ value sets
Accounts == {"alice", "bob", "charlie"}
Contents == {"The Book of Alice", "The Book of Bob"}
Amounts == 0..MaxBalance
\* the accounts and the content that the blocks given to execute_block name
Signers == {"alice", "bob"}
BlockContents == {"The Book of Alice"}
Headers == 1..MaxBlocks

\* Option<T>
None == <<>>
Some(v) == <<v>>

\* DispatchResult values
Ok == "Ok"
InsufficientFunds == "Not enough funds"
Overflow == "Amount is too large"
ClaimAlreadyExists == "Claim already exists"
NotClaimOwner == "Not the owner"
ClaimNotFound == "Claim does not exist"
BlockNumberMismatch == "The imported block number doesn't match the current's"
\* no call has returned yet
NoResult == "none"

\* ------------------------------------------------------------- variables
VARIABLES
    block_number,   \* system::Pallet.block_number
    nonce,          \* system::Pallet.nonce : BTreeMap<AccountID, Nonce>
    balances,       \* balances::Pallet.balances : BTreeMap<AccountID, Balance>
    claims,         \* proof_of_existence::Pallet.claims : BTreeMap<Content, AccountID>
    pc,             \* position in execute_block: "idle" (not running) or "loop"
    header,         \* block.header.block_number of the latest execute_block call
    len,            \* number of extrinsics of the block of that call
    i,              \* index of the next extrinsic the loop takes
    result,         \* what the latest finished execute_block call returned
    last,           \* the latest extrinsic (or pallet call) the current call applied, with its result
    accepted,       \* history: header numbers of the blocks execute_block returned Ok for
    nonce0,         \* history: the nonce map when the latest execute_block call began
    count,          \* history: per account, extrinsics of the current block it is the caller of
    failures,       \* history: number of extrinsics of the current block whose dispatch failed
    applied,        \* history: number of extrinsics applied since Runtime::new
    calls,          \* history: number of execute_block calls since Runtime::new
    sum0,           \* history: the sum of all balances in the initial state
    taken,          \* history: the extrinsics the current execute_block call has taken, in order
    ledger0,        \* history: balances and claims when the latest execute_block call began
    ret             \* what the latest read (balance, nonce lookup, get_claim) returned

vars == <<block_number, nonce, balances, claims, pc, header, len, i, result, last,
          accepted, nonce0, count, failures, applied, calls, sum0, taken, ledger0, ret>>

\* ---------------------------------------------------------- system pallet
\* BTreeMap::insert
Insert(map, key, value) ==
    [k \in (DOMAIN map) \cup {key} |-> IF k = key THEN value ELSE map[k]]

\* BTreeMap::remove
Remove(map, key) == [k \in (DOMAIN map) \ {key} |-> map[k]]

\* BTreeMap::get
Get(map, key) == IF key \in DOMAIN map THEN Some(map[key]) ELSE None

\* Option::unwrap_or
unwrap_or(opt, default) == IF opt = None THEN default ELSE opt[1]

EmptyMap == [k \in {} |-> 0]

inc_block_number(bn) == bn + 1

\* A slip of inc_nonce: the stored nonce is not read, one is stored.
inc_nonce_FromZero(n, who) == Insert(n, who, 1)

inc_nonce(n, who) ==
    LET cur == unwrap_or(Get(n, who), 0)
        new_nonce == cur + 1
    IN Insert(n, who, new_nonce)

\* -------------------------------------------------------- balances pallet
\* A slip of balance: the default for a missing entry is one, not zero.
balance_DefaultOne(bal, who) == unwrap_or(Get(bal, who), 1)
balance(bal, who) == unwrap_or(Get(bal, who), 0)

set_balance(bal, who, amount) == Insert(bal, who, amount)

\* u128::checked_sub, u128::checked_add on the scaled-down range 0..MaxBalance
checked_sub(a, b) == IF a - b < 0 THEN None ELSE Some(a - b)
\* A slip of transfer: wrapping_add in place of checked_add.
checked_add_Wrapping(a, b) == Some((a + b) % (MaxBalance + 1))
checked_add(a, b) == IF a + b > MaxBalance THEN None ELSE Some(a + b)

\* A slip of transfer: the caller's balance is written before the addition
\* is checked.
transfer_WritesEarly(bal, caller, to, amount) ==
    LET caller_balance == balance(bal, caller)
        to_balance == balance(bal, to)
        new_caller_balance == checked_sub(caller_balance, amount)
        new_to_balance == checked_add(to_balance, amount)
    IN IF new_caller_balance = None
       THEN [res |-> InsufficientFunds, balances |-> bal]
       ELSE IF new_to_balance = None
       THEN [res |-> Overflow,
             balances |-> set_balance(bal, caller, new_caller_balance[1])]
       ELSE [res |-> Ok,
             balances |-> set_balance(set_balance(bal, caller, new_caller_balance[1]),
                                      to, new_to_balance[1])]

transfer(bal, caller, to, amount) ==
    LET caller_balance == balance(bal, caller)
        to_balance == balance(bal, to)
        new_caller_balance == checked_sub(caller_balance, amount)
        new_to_balance == checked_add(to_balance, amount)
    IN IF new_caller_balance = None
       THEN [res |-> InsufficientFunds, balances |-> bal]
       ELSE IF new_to_balance = None
       THEN [res |-> Overflow, balances |-> bal]
       ELSE [res |-> Ok,
             balances |-> set_balance(set_balance(bal, caller, new_caller_balance[1]),
                                      to, new_to_balance[1])]

\* ---------------------------------------------- proof-of-existence pallet
get_claim(cl, claim) ==
    IF claim \in DOMAIN cl THEN Get(cl, claim) ELSE None

\* A slip of create_claim: the insert is done before the check.
create_claim_Overwrites(cl, caller, claim) ==
    IF claim \in DOMAIN cl
    THEN [res |-> ClaimAlreadyExists, claims |-> Insert(cl, claim, caller)]
    ELSE [res |-> Ok, claims |-> Insert(cl, claim, caller)]

create_claim(cl, caller, claim) ==
    IF claim \in DOMAIN cl
    THEN [res |-> ClaimAlreadyExists, claims |-> cl]
    ELSE [res |-> Ok, claims |-> Insert(cl, claim, caller)]

\* A slip of revoke_claim: the owner is not compared with the caller.
revoke_claim_AnyCaller(cl, caller, claim) ==
    LET owner == get_claim(cl, claim)
    IN IF owner # None
       THEN [res |-> Ok, claims |-> Remove(cl, claim)]
       ELSE [res |-> ClaimNotFound, claims |-> cl]

revoke_claim(cl, caller, claim) ==
    LET owner == get_claim(cl, claim)
    IN IF owner # None
       THEN IF owner[1] = caller
            THEN [res |-> Ok, claims |-> Remove(cl, claim)]
            ELSE [res |-> NotClaimOwner, claims |-> cl]
       ELSE [res |-> ClaimNotFound, claims |-> cl]

\* ------------------------------------------------------ calls, extrinsics
\* balances::Call::Transfer { to, amount }
Transfer(to, amount) == [op |-> "Transfer", to |-> to, amount |-> amount]
\* proof_of_existence::Call::CreateClaim { caller, claim }
CreateClaim(caller, claim) == [op |-> "CreateClaim", caller |-> caller, claim |-> claim]
\* proof_of_existence::Call::RevokeClaim { caller, claim }
RevokeClaim(caller, claim) == [op |-> "RevokeClaim", caller |-> caller, claim |-> claim]

\* RuntimeCall
RuntimeCall ==
    {Transfer(to, amount) : to \in Signers, amount \in Amounts}
    \cup {CreateClaim(c, x) : c \in Signers, x \in BlockContents}
    \cup {RevokeClaim(c, x) : c \in Signers, x \in BlockContents}

\* support::Extrinsic { caller, call }
Extrinsic == [caller : Signers, call : RuntimeCall]

\* A slip of dispatch: the extrinsic-level caller is passed to every pallet
\* method, the caller field inside the call is ignored.
dispatch_OneCaller(bal, cl, caller, runtime_call) ==
    IF runtime_call.op = "Transfer"
    THEN LET r == transfer(bal, caller, runtime_call.to, runtime_call.amount)
         IN [res |-> r.res, balances |-> r.balances, claims |-> cl]
    ELSE IF runtime_call.op = "CreateClaim"
    THEN LET r == create_claim(cl, caller, runtime_call.claim)
         IN [res |-> r.res, balances |-> bal, claims |-> r.claims]
    ELSE LET r == revoke_claim(cl, caller, runtime_call.claim)
         IN [res |-> r.res, balances |-> bal, claims |-> r.claims]

\* A variant of dispatch with a validation of its own: a call on the
\* proof-of-existence pallet is refused unless the extrinsic's caller is the
\* caller named inside the call.
dispatch_ChecksSigner(bal, cl, caller, runtime_call) ==
    IF runtime_call.op = "Transfer"
    THEN LET r == transfer(bal, caller, runtime_call.to, runtime_call.amount)
         IN [res |-> r.res, balances |-> r.balances, claims |-> cl]
    ELSE IF caller # runtime_call.caller
    THEN [res |-> NotClaimOwner, balances |-> bal, claims |-> cl]
    ELSE IF runtime_call.op = "CreateClaim"
    THEN LET r == create_claim(cl, runtime_call.caller, runtime_call.claim)
         IN [res |-> r.res, balances |-> bal, claims |-> r.claims]
    ELSE LET r == revoke_claim(cl, runtime_call.caller, runtime_call.claim)
         IN [res |-> r.res, balances |-> bal, claims |-> r.claims]

\* Runtime::dispatch on the pallets' stores
dispatch(bal, cl, caller, runtime_call) ==
    IF runtime_call.op = "Transfer"
    THEN LET r == transfer(bal, caller, runtime_call.to, runtime_call.amount)
         IN [res |-> r.res, balances |-> r.balances, claims |-> cl]
    ELSE IF runtime_call.op = "CreateClaim"
    THEN LET r == create_claim(cl, runtime_call.caller, runtime_call.claim)
         IN [res |-> r.res, balances |-> bal, claims |-> r.claims]
    ELSE LET r == revoke_claim(cl, runtime_call.caller, runtime_call.claim)
         IN [res |-> r.res, balances |-> bal, claims |-> r.claims]

\* ------------------------------------------------------------------ sums
RECURSIVE SumOver(_, _)
SumOver(bal, S) ==
    IF S = {} THEN 0
    ELSE LET a == CHOOSE x \in S : TRUE
         IN balance(bal, a) + SumOver(bal, S \ {a})

TotalBalance(bal) == SumOver(bal, Accounts)

NoCall == [caller |-> "", call |-> [op |-> "none"], res |-> NoResult]
\* no read has returned yet
NoRead == [op |-> "none", key |-> "", val |-> None]
ZeroCount == [a \in Accounts |-> 0]

\* every BTreeMap<AccountID, Balance> over Accounts
Ledgers == UNION {[D -> 0..MaxBalance] : D \in SUBSET Accounts}

\* The body of execute_block's loop on a state [nonce, balances, claims]:
\* the caller's nonce goes up, then the call is dispatched.
ApplyExtrinsic(st, e) ==
    LET d == dispatch(st.balances, st.claims, e.caller, e.call)
    IN [nonce |-> inc_nonce(st.nonce, e.caller),
        balances |-> d.balances,
        claims |-> d.claims]

\* execute_block's loop over a whole extrinsic list, left to right
RECURSIVE ApplyExtrinsics(_, _)
ApplyExtrinsics(st, exts) ==
    IF exts = <<>> THEN st
    ELSE ApplyExtrinsics(ApplyExtrinsic(st, Head(exts)), Tail(exts))

\* --------------------------------------------------------------- Runtime
\* Runtime::new
Init ==
    /\ block_number = 0
    /\ nonce = EmptyMap
    /\ balances = EmptyMap
    /\ claims = EmptyMap
    /\ pc = "idle"
    /\ header = 0
    /\ len = 0
    /\ i = 0
    /\ result = NoResult
    /\ last = NoCall
    /\ accepted = <<>>
    /\ nonce0 = EmptyMap
    /\ count = ZeroCount
    /\ failures = 0
    /\ applied = 0
    /\ calls = 0
    /\ taken = <<>>
    /\ ledger0 = [balances |-> EmptyMap, claims |-> EmptyMap]
    /\ ret = NoRead
    /\ sum0 = 0

\* runtime.balances.set_balance(&who, amount), by the host between blocks
SetBalance(who, amount) ==
    /\ pc = "idle"
    /\ balances' = set_balance(balances, who, amount)
    /\ UNCHANGED <<block_number, nonce, claims, pc, header, len, i, result, last,
                   accepted, nonce0, count, failures, applied, calls, sum0, ret>>

\* A slip of execute_block: the early return on a mismatch is missing.
ExecuteBlockBegin_NoReturn(h, n) ==
    /\ pc = "idle"
    /\ block_number < MaxBlocks
    /\ applied + n <= MaxExtrinsics
    /\ block_number' = inc_block_number(block_number)
    /\ calls' = calls + 1
    /\ header' = h
    /\ len' = n
    /\ i' = 0
    /\ nonce0' = nonce
    /\ count' = ZeroCount
    /\ failures' = 0
    /\ last' = NoCall
    /\ result' = NoResult
    /\ pc' = "loop"
    /\ UNCHANGED <<nonce, balances, claims, accepted, applied, sum0, ret>>

\* A variant of execute_block: a mismatch puts the block number back.
ExecuteBlockBegin_RollsBack(h, n) ==
    /\ pc = "idle"
    /\ calls < MaxBlocks
    /\ applied + n <= MaxExtrinsics
    /\ calls' = calls + 1
    /\ header' = h
    /\ len' = n
    /\ i' = 0
    /\ nonce0' = nonce
    /\ count' = ZeroCount
    /\ failures' = 0
    /\ last' = NoCall
    /\ IF inc_block_number(block_number) # h
       THEN /\ result' = BlockNumberMismatch
            /\ pc' = "idle"
            /\ block_number' = block_number
       ELSE /\ result' = NoResult
            /\ pc' = "loop"
            /\ block_number' = inc_block_number(block_number)
    /\ UNCHANGED <<nonce, balances, claims, accepted, applied, sum0, ret>>

\* A slip of execute_block: the check rejects only a block from the future,
\* header.block_number above the incremented block number.
ExecuteBlockBegin_AcceptsOlder(h, n) ==
    /\ pc = "idle"
    /\ block_number < MaxBlocks
    /\ applied + n <= MaxExtrinsics
    /\ block_number' = inc_block_number(block_number)
    /\ calls' = calls + 1
    /\ header' = h
    /\ len' = n
    /\ i' = 0
    /\ nonce0' = nonce
    /\ count' = ZeroCount
    /\ failures' = 0
    /\ last' = NoCall
    /\ IF block_number' < h
       THEN /\ result' = BlockNumberMismatch
            /\ pc' = "idle"
       ELSE /\ result' = NoResult
            /\ pc' = "loop"
    /\ UNCHANGED <<nonce, balances, claims, accepted, applied, sum0, ret>>

\* execute_block, from the call to the loop's first iteration (or to the
\* early return): h is block.header.block_number, n is block.extrinsics.len()
ExecuteBlockBegin(h, n) ==
    /\ pc = "idle"
    /\ block_number < MaxBlocks
    /\ applied + n <= MaxExtrinsics
    /\ block_number' = inc_block_number(block_number)
    /\ calls' = calls + 1
    /\ header' = h
    /\ len' = n
    /\ i' = 0
    /\ nonce0' = nonce
    /\ count' = ZeroCount
    /\ failures' = 0
    /\ last' = NoCall
    /\ IF block_number' # h
       THEN /\ result' = BlockNumberMismatch
            /\ pc' = "idle"
       ELSE /\ result' = NoResult
            /\ pc' = "loop"
    /\ UNCHANGED <<nonce, balances, claims, accepted, applied, sum0, ret>>

\* A slip of execute_block: the dispatch error is propagated (dispatch(..)?)
\* instead of being reported, so the first failing extrinsic ends the block.
ExecuteBlockStep_Propagates(e) ==
    /\ pc = "loop"
    /\ i < len
    /\ LET d == dispatch(balances, claims, e.caller, e.call)
       IN /\ nonce' = inc_nonce(nonce, e.caller)
          /\ balances' = d.balances
          /\ claims' = d.claims
          /\ last' = [caller |-> e.caller, call |-> e.call, res |-> d.res]
          /\ failures' = IF d.res = Ok THEN failures ELSE failures + 1
          /\ pc' = IF d.res = Ok THEN "loop" ELSE "idle"
          /\ result' = IF d.res = Ok THEN result ELSE d.res
    /\ i' = i + 1
    /\ applied' = applied + 1
    /\ count' = [count EXCEPT ![e.caller] = @ + 1]
    /\ UNCHANGED <<block_number, header, len, accepted, nonce0, calls, sum0, ret>>

\* A slip of execute_block: every extrinsic is dispatched on the ledgers as
\* the call found them (as if the extrinsics ran side by side), not on the
\* ledgers the earlier extrinsics left.
ExecuteBlockStep_OnStartLedgers(e) ==
    /\ pc = "loop"
    /\ i < len
    /\ LET d == dispatch(ledger0.balances, ledger0.claims, e.caller, e.call)
       IN /\ nonce' = inc_nonce(nonce, e.caller)
          /\ balances' = d.balances
          /\ claims' = d.claims
          /\ last' = [caller |-> e.caller, call |-> e.call, res |-> d.res]
          /\ failures' = IF d.res = Ok THEN failures ELSE failures + 1
    /\ i' = i + 1
    /\ applied' = applied + 1
    /\ count' = [count EXCEPT ![e.caller] = @ + 1]
    /\ UNCHANGED <<block_number, pc, header, len, result, accepted, nonce0, calls, sum0, ret>>

\* one iteration of the loop over block.extrinsics: e is the extrinsic the
\* iterator yields at index i
\* A slip of the loop: for a call on the proof-of-existence pallet the nonce
\* bumped is that of the caller named inside the call.
ExecuteBlockStep_NonceOfEmbedded(e) ==
    /\ pc = "loop"
    /\ i < len
    /\ LET d == dispatch(balances, claims, e.caller, e.call)
       IN /\ nonce' = inc_nonce(nonce, IF e.call.op = "Transfer" THEN e.caller
                                       ELSE e.call.caller)
          /\ balances' = d.balances
          /\ claims' = d.claims
          /\ last' = [caller |-> e.caller, call |-> e.call, res |-> d.res]
          /\ failures' = IF d.res = Ok THEN failures ELSE failures + 1
    /\ i' = i + 1
    /\ applied' = applied + 1
    /\ count' = [count EXCEPT ![e.caller] = @ + 1]
    /\ UNCHANGED <<block_number, pc, header, len, result, accepted, nonce0, calls, sum0, ret>>

ExecuteBlockStep(e) ==
    /\ pc = "loop"
    /\ i < len
    /\ LET d == dispatch(balances, claims, e.caller, e.call)
       IN /\ nonce' = inc_nonce(nonce, e.caller)
          /\ balances' = d.balances
          /\ claims' = d.claims
          /\ last' = [caller |-> e.caller, call |-> e.call, res |-> d.res]
          /\ failures' = IF d.res = Ok THEN failures ELSE failures + 1
    /\ i' = i + 1
    /\ applied' = applied + 1
    /\ count' = [count EXCEPT ![e.caller] = @ + 1]
    /\ UNCHANGED <<block_number, pc, header, len, result, accepted, nonce0, calls, sum0, ret>>

\* the loop is over: execute_block returns Ok(())
ExecuteBlockEnd ==
    /\ pc = "loop"
    /\ i = len
    /\ pc' = "idle"
    /\ result' = Ok
    /\ accepted' = Append(accepted, header)
    /\ UNCHANGED <<block_number, nonce, balances, claims, header, len, i, last,
                   nonce0, count, failures, applied, calls, sum0, ret>>

Next ==
    \/ \E who \in Signers, amount \in Amounts :
          SetBalance(who, amount) /\ UNCHANGED <<taken, ledger0>>
    \/ \E h \in Headers, n \in 0..MaxExtrinsics :
          ExecuteBlockBegin(h, n) /\ UNCHANGED <<taken, ledger0>>
    \/ \E e \in Extrinsic :
          ExecuteBlockStep(e) /\ UNCHANGED <<taken, ledger0>>
    \/ ExecuteBlockEnd /\ UNCHANGED <<taken, ledger0>>

Spec == Init /\ [][Next]_vars

\* The Runtime as main drives it up to its first block: the host endows the
\* accounts, then calls execute_block; the block that the call consumes is
\* written down as the loop takes it, with the ledgers as the call found them.
NextOrder ==
    \/ \E who \in Signers, amount \in Amounts :
          /\ calls = 0
          /\ SetBalance(who, amount)
          /\ UNCHANGED <<taken, ledger0>>
    \/ \E h \in Headers, n \in 0..MaxExtrinsics :
          /\ calls = 0
          /\ ExecuteBlockBegin(h, n)
          /\ taken' = <<>>
          /\ ledger0' = [balances |-> balances, claims |-> claims]
    \/ \E e \in Extrinsic :
          /\ ExecuteBlockStep(e)
          /\ taken' = Append(taken, e)
          /\ UNCHANGED ledger0
    \/ ExecuteBlockEnd /\ UNCHANGED <<taken, ledger0>>

SpecOrder == Init /\ [][NextOrder]_vars

\* ------------------------------------------- the balances pallet on its own
\* A balances::Pallet holding any ledger (any ledger is a sequence of
\* set_balance calls away from Pallet::new), as the pallet's tests build it.
InitBalances ==
    /\ balances \in Ledgers
    /\ sum0 = TotalBalance(balances)
    /\ block_number = 0
    /\ nonce = EmptyMap
    /\ claims = EmptyMap
    /\ pc = "idle"
    /\ header = 0
    /\ len = 0
    /\ i = 0
    /\ result = NoResult
    /\ last = NoCall
    /\ accepted = <<>>
    /\ nonce0 = EmptyMap
    /\ count = ZeroCount
    /\ failures = 0
    /\ applied = 0
    /\ calls = 0
    /\ taken = <<>>
    /\ ledger0 = [balances |-> EmptyMap, claims |-> EmptyMap]
    /\ ret = NoRead

\* balances.transfer(caller, to, amount)
DoTransfer(caller, to, amount) ==
    /\ LET r == transfer(balances, caller, to, amount)
       IN /\ balances' = r.balances
          /\ last' = [caller |-> caller, call |-> Transfer(to, amount), res |-> r.res]
    /\ UNCHANGED <<block_number, nonce, claims, pc, header, len, i, result,
                   accepted, nonce0, count, failures, applied, calls, sum0, taken, ledger0, ret>>

NextBalances ==
    \E caller \in Accounts, to \in Accounts, amount \in Amounts :
        DoTransfer(caller, to, amount)

SpecBalances == InitBalances /\ [][NextBalances]_vars

\* --------------------------------- the proof-of-existence pallet on its own
\* pallet.create_claim(caller, claim)
DoCreateClaim(caller, claim) ==
    /\ LET r == create_claim(claims, caller, claim)
       IN /\ claims' = r.claims
          /\ last' = [caller |-> caller, call |-> CreateClaim(caller, claim), res |-> r.res]
    /\ UNCHANGED <<block_number, nonce, balances, pc, header, len, i, result,
                   accepted, nonce0, count, failures, applied, calls, sum0, taken, ledger0, ret>>

\* pallet.revoke_claim(caller, claim)
DoRevokeClaim(caller, claim) ==
    /\ LET r == revoke_claim(claims, caller, claim)
       IN /\ claims' = r.claims
          /\ last' = [caller |-> caller, call |-> RevokeClaim(caller, claim), res |-> r.res]
    /\ UNCHANGED <<block_number, nonce, balances, pc, header, len, i, result,
                   accepted, nonce0, count, failures, applied, calls, sum0, taken, ledger0, ret>>

NextPoE ==
    \/ \E caller \in Accounts, claim \in Contents : DoCreateClaim(caller, claim)
    \/ \E caller \in Accounts, claim \in Contents : DoRevokeClaim(caller, claim)

\* Pallet::new, then any sequence of create_claim and revoke_claim calls
SpecPoE == Init /\ [][NextPoE]_vars

\* ------------------------------------------- the pallets' stores on their own
\* balances.set_balance(who, amount), recorded in last
DoSetBalance(who, amount) ==
    /\ balances' = set_balance(balances, who, amount)
    /\ last' = [caller |-> who, call |-> [op |-> "set_balance", amount |-> amount], res |-> Ok]
    /\ UNCHANGED <<block_number, nonce, claims, pc, header, len, i, result,
                   accepted, nonce0, count, failures, applied, calls, sum0, taken, ledger0, ret>>

\* system.inc_nonce(who); the guard keeps the counter within the bound
DoIncNonce(who) ==
    /\ unwrap_or(Get(nonce, who), 0) < MaxExtrinsics
    /\ nonce' = inc_nonce(nonce, who)
    /\ UNCHANGED <<block_number, balances, claims, pc, header, len, i, result, last,
                   accepted, nonce0, count, failures, applied, calls, sum0, taken, ledger0, ret>>

\* balances.balance(who): a read, its return value kept in ret
ReadBalance(who) ==
    /\ ret' = [op |-> "balance", key |-> who, val |-> balance(balances, who)]
    /\ UNCHANGED <<block_number, nonce, balances, claims, pc, header, len, i, result, last,
                   accepted, nonce0, count, failures, applied, calls, sum0, taken, ledger0>>

\* system.nonce.get(who): a read, its return value kept in ret
ReadNonce(who) ==
    /\ ret' = [op |-> "nonce", key |-> who, val |-> Get(nonce, who)]
    /\ UNCHANGED <<block_number, nonce, balances, claims, pc, header, len, i, result, last,
                   accepted, nonce0, count, failures, applied, calls, sum0, taken, ledger0>>

\* pallet.get_claim(claim): a read, its return value kept in ret
ReadClaim(claim) ==
    /\ ret' = [op |-> "get_claim", key |-> claim, val |-> get_claim(claims, claim)]
    /\ UNCHANGED <<block_number, nonce, balances, claims, pc, header, len, i, result, last,
                   accepted, nonce0, count, failures, applied, calls, sum0, taken, ledger0>>

NextStore ==
    \/ \E who \in Signers, amount \in Amounts : DoSetBalance(who, amount)
    \/ \E who \in Signers : DoIncNonce(who)
    \/ \E caller \in Signers, claim \in BlockContents : DoCreateClaim(caller, claim)
    \/ \E caller \in Signers, claim \in BlockContents : DoRevokeClaim(caller, claim)
    \/ \E who \in Accounts : ReadBalance(who)
    \/ \E who \in Accounts : ReadNonce(who)
    \/ \E claim \in Contents : ReadClaim(claim)

\* new pallets, then any sequence of writes and reads on their stores
SpecStore == Init /\ [][NextStore]_vars

\* ------------------------------------------------------ dispatch on its own
\* every RuntimeCall value over the accounts and contents of the model
AnyRuntimeCall ==
    {Transfer(to, amount) : to \in Accounts, amount \in Amounts}
    \cup {CreateClaim(c, x) : c \in Accounts, x \in Contents}
    \cup {RevokeClaim(c, x) : c \in Accounts, x \in Contents}

\* every claims map over the accounts and contents of the model
ClaimLedgers == UNION {[D -> Accounts] : D \in SUBSET Contents}

\* a Runtime whose balances and claims maps hold anything
InitDispatch ==
    /\ balances \in Ledgers
    /\ claims \in ClaimLedgers
    /\ sum0 = TotalBalance(balances)
    /\ block_number = 0
    /\ nonce = EmptyMap
    /\ pc = "idle"
    /\ header = 0
    /\ len = 0
    /\ i = 0
    /\ result = NoResult
    /\ last = NoCall
    /\ accepted = <<>>
    /\ nonce0 = EmptyMap
    /\ count = ZeroCount
    /\ failures = 0
    /\ applied = 0
    /\ calls = 0
    /\ taken = <<>>
    /\ ledger0 = [balances |-> EmptyMap, claims |-> EmptyMap]
    /\ ret = NoRead

\* runtime.dispatch(caller, runtime_call), one call on each Runtime: every
\* state of the two maps is an initial state
DoDispatch(caller, runtime_call) ==
    /\ last = NoCall
    /\ LET d == dispatch(balances, claims, caller, runtime_call)
       IN /\ balances' = d.balances
          /\ claims' = d.claims
          /\ last' = [caller |-> caller, call |-> runtime_call, res |-> d.res]
    /\ UNCHANGED <<block_number, nonce, pc, header, len, i, result,
                   accepted, nonce0, count, failures, applied, calls, sum0, taken, ledger0, ret>>

NextDispatch ==
    \E caller \in Accounts, runtime_call \in AnyRuntimeCall : DoDispatch(caller, runtime_call)

SpecDispatch == InitDispatch /\ [][NextDispatch]_vars

\* ------------------------------------------------------------- properties
\* Nonce lookup: zero when the account has no entry
nonce_of(n, who) == unwrap_or(Get(n, who), 0)

\* C1: the header block numbers of the blocks execute_block returned Ok for
\* are exactly 1, 2, 3, ... in this order (no gap, starting at 1).
C1_AcceptedAreOneTwoThree ==
    \A k \in 1..Len(accepted) : accepted[k] = k

\* C2: a call of execute_block whose header.block_number is not the stored
\* block_number plus one returns BlockNumberMismatch and applies no
\* extrinsic (nonces, balances and claims are unchanged, whatever the length
\* of the extrinsic list), and the stored block_number is one higher.
C2_MismatchAppliesNothing ==
    [][(calls' = calls + 1 /\ header' # block_number + 1)
         => /\ result' = BlockNumberMismatch
            /\ pc' = "idle"
            /\ nonce' = nonce
            /\ balances' = balances
            /\ claims' = claims
            /\ applied' = applied
            /\ block_number' = block_number + 1]_vars

C2_Witness ==
    /\ result = BlockNumberMismatch
    /\ header # block_number
    /\ len > 0
    /\ block_number = 1

\* C3: when execute_block has returned Ok, the nonce of every account is
\* higher, by exactly the number of extrinsics of the block whose
\* extrinsic-level caller it is, than when the call began, failed dispatches
\* included; an account that is the caller of none has its entry unchanged.
C3_NonceCountsExtrinsics ==
    (pc = "idle" /\ result = Ok)
      => \A a \in Accounts :
            /\ nonce_of(nonce, a) = nonce_of(nonce0, a) + count[a]
            /\ count[a] = 0 => Get(nonce, a) = Get(nonce0, a)

C3_Witness ==
    /\ pc = "idle"
    /\ result = Ok
    /\ count["alice"] = 2
    /\ failures >= 1
    /\ nonce_of(nonce, "alice") = nonce_of(nonce0, "alice") + 2
    /\ Get(nonce, "bob") = Get(nonce0, "bob")

\* C4: in an accepted block a failing dispatch does not end the block: each
\* iteration takes exactly the next extrinsic and stays in the loop whatever
\* the dispatch returned, a failing one leaves the ledgers as the earlier
\* extrinsics left them, and the call returns only after the last extrinsic,
\* with Ok.
C4_FailureDoesNotAbort ==
    [][/\ (pc = "loop" /\ i < len)
            => /\ i' = i + 1
               /\ applied' = applied + 1
               /\ pc' = "loop"
               /\ len' = len
               /\ result' = NoResult
               /\ last'.res # Ok => (balances' = balances /\ claims' = claims)
       /\ (pc = "loop" /\ pc' = "idle")
            => /\ i = len
               /\ i' = i
               /\ result' = Ok
               /\ balances' = balances
               /\ claims' = claims
               /\ nonce' = nonce]_vars

C4_Witness ==
    /\ pc = "idle"
    /\ result = Ok
    /\ len = 2
    /\ i = 2
    /\ failures = 1
    /\ last.res = Ok
    /\ applied = 2

\* C5: an extrinsic whose dispatch fails changes nothing but the nonce of
\* its extrinsic-level caller, which goes up by one: balances, claims and
\* block_number are as before it.
C5_FailedExtrinsicOnlyBumpsNonce ==
    [][(pc = "loop" /\ i' = i + 1 /\ last'.res # Ok)
         => /\ last'.res \in {InsufficientFunds, Overflow, ClaimAlreadyExists,
                              ClaimNotFound, NotClaimOwner}
            /\ balances' = balances
            /\ claims' = claims
            /\ block_number' = block_number
            /\ nonce' = Insert(nonce, last'.caller, nonce_of(nonce, last'.caller) + 1)]_vars

C5_Witness ==
    /\ pc = "loop"
    /\ i >= 1
    /\ last.call.op = "Transfer"
    /\ last.res = Overflow
    /\ nonce_of(nonce, last.caller) = nonce_of(nonce0, last.caller) + count[last.caller]
    /\ count[last.caller] >= 1

\* C6: every transfer(a, b, amt) either succeeds, leaving balance_of(a)
\* lower by exactly amt and balance_of(b) higher by exactly amt, or fails,
\* leaving every balance unchanged.
C6_TransferMovesOrLeaves ==
    [][LET a == last'.caller
           b == last'.call.to
           amt == last'.call.amount
       IN \/ /\ last'.res = Ok
             /\ balance(balances', a) = balance(balances, a) - amt
             /\ balance(balances', b) = balance(balances, b) + amt
          \/ /\ last'.res # Ok
             /\ \A x \in Accounts : balance(balances', x) = balance(balances, x)]_vars

\* C7: after any sequence of transfers among the accounts, succeeding or
\* failing, the sum of all balances is the sum before the sequence.
C7_TransfersConserveTotal ==
    TotalBalance(balances) = sum0

\* C8: transfer fails with InsufficientFunds exactly when the amount exceeds
\* the caller's balance, otherwise with Overflow exactly when the receiver's
\* balance plus the amount exceeds the largest Balance, otherwise it
\* succeeds; a failing transfer writes nothing, and every stored balance
\* stays within 0..MaxBalance.
C8_TransferChecksBeforeWriting ==
    [][LET cb == balance(balances, last'.caller)
           tb == balance(balances, last'.call.to)
           amt == last'.call.amount
       IN /\ (last'.res = InsufficientFunds) <=> (amt > cb)
          /\ (last'.res = Overflow) <=> (amt <= cb /\ tb + amt > MaxBalance)
          /\ (last'.res = Ok) <=> (amt <= cb /\ tb + amt <= MaxBalance)
          /\ last'.res # Ok => balances' = balances
          /\ \A x \in DOMAIN balances' : balances'[x] \in 0..MaxBalance]_vars

C8_Witness ==
    /\ last.call.op = "Transfer"
    /\ last.res = Overflow
    /\ last.call.amount <= balance(balances, last.caller)
    /\ last.call.amount > 0
    /\ balance(balances, last.call.to) + last.call.amount > MaxBalance

\* C9: while a content is claimed, every create_claim on it, by any account,
\* fails with ClaimAlreadyExists and leaves its owner in place; the owner of
\* a claimed content changes only by a revoke_claim on it that succeeds, and
\* create_claim on an unclaimed content (a revoked one included) succeeds
\* for any account and records that account.
C9_ClaimHeldUntilRevoked ==
    [][/\ \A c \in DOMAIN claims :
            \/ get_claim(claims', c) = get_claim(claims, c)
            \/ /\ last'.call.op = "RevokeClaim"
               /\ last'.call.claim = c
               /\ last'.res = Ok
       /\ last'.call.op = "CreateClaim"
            => IF last'.call.claim \in DOMAIN claims
               THEN /\ last'.res = ClaimAlreadyExists
                    /\ claims' = claims
               ELSE /\ last'.res = Ok
                    /\ get_claim(claims', last'.call.claim) = Some(last'.call.caller)]_vars

C9_Witness ==
    /\ last.call.op = "CreateClaim"
    /\ last.res = ClaimAlreadyExists
    /\ get_claim(claims, last.call.claim) # None
    /\ get_claim(claims, last.call.claim) # Some(last.call.caller)

\* C10: revoke_claim(y, c) fails with ClaimNotFound when c is unclaimed and
\* with NotClaimOwner when c is claimed by another account, leaving the
\* claims unchanged; it succeeds only when y owns c, and then removes the
\* entry of c and no other.
C10_RevokeOnlyByOwner ==
    [][last'.call.op = "RevokeClaim"
         => LET y == last'.call.caller
                c == last'.call.claim
            IN /\ get_claim(claims, c) = None
                    => (last'.res = ClaimNotFound /\ claims' = claims)
               /\ (get_claim(claims, c) # None /\ get_claim(claims, c) # Some(y))
                    => (last'.res = NotClaimOwner /\ claims' = claims)
               /\ get_claim(claims, c) = Some(y)
                    => /\ last'.res = Ok
                       /\ get_claim(claims', c) = None
                       /\ c \notin DOMAIN claims'
                       /\ \A d \in Contents \ {c} : Get(claims', d) = Get(claims, d)
               /\ last'.res = Ok => get_claim(claims, c) = Some(y)]_vars

C10_Witness ==
    /\ last.call.op = "RevokeClaim"
    /\ last.res = Ok
    /\ get_claim(claims, last.call.claim) = None
    /\ claims # EmptyMap

C12_BlockIsLeftFold ==
    (pc = "loop" \/ result = Ok)
      => /\ Len(taken) = i
         /\ result = Ok => i = len
         /\ [nonce |-> nonce, balances |-> balances, claims |-> claims]
              = ApplyExtrinsics([nonce |-> nonce0,
                                 balances |-> ledger0.balances,
                                 claims |-> ledger0.claims], taken)

\* From alice = 2, two transfers of 1 from alice to bob in one block: the
\* second sees what the first left.
C12_Witness ==
    /\ pc = "idle"
    /\ result = Ok
    /\ ledger0.balances = Insert(EmptyMap, "alice", 2)
    /\ taken = << [caller |-> "alice", call |-> Transfer("bob", 1)],
                  [caller |-> "alice", call |-> Transfer("bob", 1)] >>
    /\ balance(balances, "alice") = 0
    /\ balance(balances, "bob") = 2
    /\ failures = 0

\* C13: block_number is zero on a fresh Runtime, goes up by exactly one at
\* the start of every execute_block call, accepted or rejected, and is
\* changed by nothing else: at every moment it is the number of
\* execute_block calls made so far.
C13_BlockNumberCountsCalls ==
    /\ block_number = calls
    /\ block_number >= Len(accepted)
    /\ pc = "loop" => header = block_number

C13_Witness ==
    /\ calls = 2
    /\ block_number = 2
    /\ result = BlockNumberMismatch
    /\ accepted = <<1>>
    /\ applied >= 1

\* C14: a read (balance, nonce lookup, get_claim) of a key with no entry,
\* so of every key never written, returns zero for a balance and None for
\* a nonce or a claim, and a read of a key with an entry returns the entry;
\* a read changes no store, so it creates no entry; and set_balance(a, v)
\* makes the balance of a equal to v and leaves the balance, and the
\* presence, of every other account as it was.
C14_UnwrittenReadsAndSetBalance ==
    [][ /\ (ret' # ret) =>
             /\ UNCHANGED <<block_number, nonce, balances, claims>>
             /\ (ret'.op = "balance") =>
                   /\ ret'.key \notin DOMAIN balances => ret'.val = 0
                   /\ ret'.key \in DOMAIN balances => ret'.val = balances[ret'.key]
             /\ (ret'.op = "nonce" /\ ret'.key \notin DOMAIN nonce) => ret'.val = None
             /\ (ret'.op = "get_claim" /\ ret'.key \notin DOMAIN claims) => ret'.val = None
        /\ (last' # last /\ last'.call.op = "set_balance") =>
             /\ last'.caller \in DOMAIN balances'
             /\ balances'[last'.caller] = last'.call.amount
             /\ \A a \in Accounts \ {last'.caller} :
                   /\ a \in DOMAIN balances' <=> a \in DOMAIN balances
                   /\ a \in DOMAIN balances => balances'[a] = balances[a]
      ]_vars

C14_Witness ==
    /\ last = [caller |-> "alice", call |-> [op |-> "set_balance", amount |-> MaxBalance],
               res |-> Ok]
    /\ balances = [a \in {"alice"} |-> MaxBalance]
    /\ "bob" \in DOMAIN nonce
    /\ claims # EmptyMap
    /\ ret = [op |-> "balance", key |-> "charlie", val |-> 0]

C16_ExtrinsicTouchesOwnSlice ==
    [][ (applied' = applied + 1) =>
           /\ last'.call.op = "Transfer" => claims' = claims
           /\ last'.call.op \in {"CreateClaim", "RevokeClaim"} => balances' = balances
           /\ block_number' = block_number
           /\ Get(nonce', last'.caller) # Get(nonce, last'.caller)
           /\ \A a \in Accounts \ {last'.caller} : Get(nonce', a) = Get(nonce, a)
      ]_vars

C16_Witness ==
    /\ last.call.op = "CreateClaim"
    /\ last.res = Ok
    /\ last.caller # last.call.caller
    /\ DOMAIN nonce = {last.caller}
    /\ balances # EmptyMap
    /\ block_number = 1

\* C17: a transfer that succeeds with the sender and the receiver being the
\* same account leaves that account's balance as it was, and with it the
\* sum of all balances.
C17_SelfTransferChangesNothing ==
    [][ (last'.res = Ok /\ last'.call.op = "Transfer" /\ last'.caller = last'.call.to) =>
           /\ balance(balances', last'.caller) = balance(balances, last'.caller)
           /\ TotalBalance(balances') = TotalBalance(balances)
      ]_vars

\* C18: an execute_block call whose header.block_number is at most the
\* block_number stored before the call returns BlockNumberMismatch and
\* applies nothing; every header accepted is above every header accepted
\* before it, so no header block number is accepted twice, and the loop
\* never runs on the extrinsics of a block whose number was accepted.
C18_NoBlockAcceptedTwice ==
    [][ /\ (calls' = calls + 1 /\ header' <= block_number) =>
             /\ result' = BlockNumberMismatch
             /\ pc' = "idle"
             /\ UNCHANGED <<nonce, balances, claims, accepted, applied>>
        /\ (accepted' # accepted) =>
             /\ accepted' = Append(accepted, header)
             /\ \A k \in 1..Len(accepted) : accepted[k] < header
        /\ (pc' = "loop") => \A k \in 1..Len(accepted') : accepted'[k] < header'
        /\ \A j, k \in 1..Len(accepted') : j # k => accepted'[j] # accepted'[k]
      ]_vars

C18_Witness ==
    /\ accepted = <<1>>
    /\ calls = 2
    /\ header = 1
    /\ len = 1
    /\ result = BlockNumberMismatch
    /\ applied = 1
    /\ DOMAIN nonce # {}

====
